---- MODULE Spec2Model ----
(***************************************************************************)
(* Model of the dose tracker (pavelmk/dose-tracker): the single-dose decay *)
(* function, the superposition aggregator, the adaptive sampler of the    *)
(* decay graph and the application state (doses, drugs, undo history,     *)
(* time window) with its handlers.                                         *)
(*                                                                         *)
(* Numbers.  A JavaScript number is an IEEE-754 double.  Two number        *)
(* domains are used here:                                                  *)
(*  - instants and durations are exact rationals [n, d] (d > 0, lowest     *)
(*    terms).  Administration instants and window bounds are whole ticks   *)
(*    (a Date holds a whole number of ticks); the sampler's instants are   *)
(*    fractions and new Date(t) drops the fraction.  One tick is the       *)
(*    resolution of a Date and one hour is HourMs ticks, far fewer than    *)
(*    the 3600000 of the program.  Rounding of doubles on instants is not  *)
(*    modelled.                                                            *)
(*  - amounts and concentrations are binary floating-point values [m, e]   *)
(*    standing for m * 2^(-e), with a significand of MANT bits, rounded to *)
(*    nearest-even after every multiplication and addition, like a double  *)
(*    with a shorter significand and an unbounded exponent.                *)
(* Math.pow(0.5, x) is exact when x is a whole number and is otherwise     *)
(* resolved to ExpBits binary digits of the fractional part of x.          *)
(***************************************************************************)
EXTENDS Integers, Sequences, FiniteSets, TLC

VARIABLES
    pc,            \* position of the function call under study: "ready" or "done"
    input,         \* arguments of the function call under study
    output,        \* value returned by the function call under study
    path,          \* statements a call of calculateSingleDoseConcentration ran
    history,       \* useUndoRedo: [past, present, future] of AppState
    timeRange,     \* App: the time window [start, end]
    plottedDrugs,  \* App: the memoised grouping of doses by drug
    nextId         \* the next value of the random id generator

vars == <<pc, input, output, path, history, timeRange, plottedDrugs, nextId>>

callVars == <<pc, input, output, path>>

appVars == <<history, timeRange, plottedDrugs, nextId>>

(***************************************************************************)
(* Bounds of the model.                                                    *)
(***************************************************************************)
MANT == 14

ExpBits == 3

MaxDose == 3

MaxHalfLife == 3

MaxElapsed == 7

MaxDoses == 3

MaxTime == 2

MaxDrugs == 2

MaxEntries == 2

MaxPast == 4

MaxId == 3

\* ticks per hour: the model's image of 60 * 60 * 1000 ms
HourMs == 10

\* the test walks 0..40 half-lives
MaxHalfLives == 40

(***************************************************************************)
(* Exact rationals (instants, durations, ratios).                          *)
(***************************************************************************)
Abs(x) == IF x < 0 THEN -x ELSE x

RECURSIVE GCD(_, _)
GCD(a, b) == IF b = 0 THEN a ELSE GCD(b, a % b)

Rat(n, d) ==
    LET g == GCD(Abs(n), Abs(d))
        s == IF d < 0 THEN -1 ELSE 1
    IN  [n |-> (s * n) \div g, d |-> (s * d) \div g]

R(k) == [n |-> k, d |-> 1]

RAdd(a, b) == Rat(a.n * b.d + b.n * a.d, a.d * b.d)

RSub(a, b) == Rat(a.n * b.d - b.n * a.d, a.d * b.d)

RMul(a, b) == Rat(a.n * b.n, a.d * b.d)

\* the quotients of a division by zero: 0 / 0 and x / 0 for x > 0 and x < 0
RNaN == [n |-> 0, d |-> 0]

RInf == [n |-> 1, d |-> 0]

RNegInf == [n |-> -1, d |-> 0]

RDiv(a, b) ==
    IF b.n = 0
    THEN IF a.n = 0 THEN RNaN ELSE IF a.n > 0 THEN RInf ELSE RNegInf
    ELSE Rat(a.n * b.d, a.d * b.n)

RFloor(a) == a.n \div a.d

\* a < b, comparing whole parts first so that no product leaves 32 bits
RLt(a, b) ==
    \/ RFloor(a) < RFloor(b)
    \/ /\ RFloor(a) = RFloor(b)
       /\ (a.n % a.d) * b.d < (b.n % b.d) * a.d

RLe(a, b) == ~RLt(b, a)

RMax(a, b) == IF RLt(a, b) THEN b ELSE a

RMin(a, b) == IF RLt(b, a) THEN b ELSE a

(***************************************************************************)
(* Binary floating point with a MANT-bit significand.                      *)
(***************************************************************************)
RECURSIVE BitLen(_)
BitLen(m) == IF m = 0 THEN 0 ELSE 1 + BitLen(m \div 2)

FZero == [m |-> 0, e |-> 0]

\* m * 2^(-e) rounded to nearest-even on MANT bits, significand normalised
Round(m, e) ==
    IF m = 0 THEN FZero
    ELSE LET L == BitLen(m)
         IN  IF L <= MANT
             THEN [m |-> m * 2^(MANT - L), e |-> e + (MANT - L)]
             ELSE LET s    == L - MANT
                      q    == m \div 2^s
                      r    == m % 2^s
                      half == 2^(s - 1)
                      up   == r > half \/ (r = half /\ q % 2 = 1)
                      q1   == IF up THEN q + 1 ELSE q
                  IN  IF q1 = 2^MANT
                      THEN [m |-> 2^(MANT - 1), e |-> e - s - 1]
                      ELSE [m |-> q1, e |-> e - s]

F(k) == Round(k, 0)

\* the values NaN and Infinity, marked by a significand no number has
FNaN == [m |-> -1, e |-> 0]

FInf == [m |-> -2, e |-> 0]

FMul(a, b) ==
    IF a = FNaN \/ b = FNaN THEN FNaN
    ELSE IF a = FInf \/ b = FInf
         THEN IF a.m = 0 \/ b.m = 0 THEN FNaN ELSE FInf
    ELSE Round(a.m * b.m, a.e + b.e)

FLt(a, b) ==
    IF a.m = 0 THEN b.m > 0
    ELSE IF b.m = 0 THEN FALSE
    ELSE a.e > b.e \/ (a.e = b.e /\ a.m < b.m)

FLe(a, b) == ~FLt(b, a)

\* a + b for non-negative a, b; an addend below half an ulp is absorbed
FAdd(a, b) ==
    IF a = FNaN \/ b = FNaN THEN FNaN
    ELSE IF a = FInf \/ b = FInf THEN FInf
    ELSE IF a.m = 0 THEN b
    ELSE IF b.m = 0 THEN a
    ELSE LET hi == IF FLt(a, b) THEN b ELSE a
             lo == IF FLt(a, b) THEN a ELSE b
             d  == lo.e - hi.e
         IN  IF d > MANT THEN hi
             ELSE Round(hi.m * 2^d + lo.m, lo.e)

(***************************************************************************)
(* Math.pow(0.5, x) for a rational x.                                      *)
(***************************************************************************)
\* the integer square root of x, by bisection on lo <= root < hi
RECURSIVE ISqrtIn(_, _, _)
ISqrtIn(x, lo, hi) ==
    IF hi - lo <= 1 THEN lo
    ELSE LET mid == (lo + hi) \div 2
         IN  IF mid * mid <= x THEN ISqrtIn(x, mid, hi) ELSE ISqrtIn(x, lo, mid)

\* 2^(-1/2^j) in fixed point with MANT fractional bits, j = 1..ExpBits
RECURSIVE RootOfHalf(_)
RootOfHalf(j) ==
    IF j = 0 THEN 2^(MANT - 1)
    ELSE ISqrtIn(RootOfHalf(j - 1) * 2^MANT, 0, 2^MANT + 1)

RootTable == [j \in 1..ExpBits |-> RootOfHalf(j)]

\* 2^(-k / 2^ExpBits) in fixed point, the product of the roots of the set bits
RECURSIVE FracPow(_, _)
FracPow(k, j) ==
    IF j = 0 THEN 2^MANT
    ELSE LET rest == FracPow(k \div 2, j - 1)
         IN  IF k % 2 = 1 THEN (rest * RootTable[j]) \div 2^MANT ELSE rest

FracTable == [k \in 0..(2^ExpBits - 1) |-> FracPow(k, ExpBits)]

Pow05(x) ==
    IF x = RNaN THEN FNaN
    ELSE IF x = RInf THEN FZero
    ELSE IF x = RNegInf THEN FInf
    ELSE LET n == RFloor(x)
             r == x.n % x.d
         IN  IF r = 0 THEN Round(1, n)
             ELSE Round(FracTable[(r * 2^ExpBits) \div x.d], n + MANT)

(***************************************************************************)
(* doseCalculations.ts                                                     *)
(***************************************************************************)
\* a plausible slip: the guard also rejects an elapsed time of zero
calculateSingleDoseConcentration_ZeroRejected(initialDose, halfLifeHours, timeElapsedMs) ==
    IF RLe(timeElapsedMs, R(0)) THEN FZero
    ELSE LET halfLifeMs == R(halfLifeHours * HourMs)
             halfLives  == RDiv(timeElapsedMs, halfLifeMs)
         IN  FMul(F(initialDose), Pow05(halfLives))

\* a plausible slip: the guard on a negative elapsed time is missing
calculateSingleDoseConcentration_NoGuard(initialDose, halfLifeHours, timeElapsedMs) ==
    LET halfLifeMs == R(halfLifeHours * HourMs)
        halfLives  == RDiv(timeElapsedMs, halfLifeMs)
    IN  FMul(F(initialDose), Pow05(halfLives))

\* a plausible slip: the half-life is converted with a factor missing
calculateSingleDoseConcentration_WrongUnit(initialDose, halfLifeHours, timeElapsedMs) ==
    IF RLt(timeElapsedMs, R(0)) THEN FZero
    ELSE LET halfLifeMs == R(halfLifeHours)
             halfLives  == RDiv(timeElapsedMs, halfLifeMs)
         IN  FMul(F(initialDose), Pow05(halfLives))

\* a plausible slip: the exponent has the wrong sign, the amount grows
calculateSingleDoseConcentration_SignFlipped(initialDose, halfLifeHours, timeElapsedMs) ==
    IF RLt(timeElapsedMs, R(0)) THEN FZero
    ELSE LET halfLifeMs == R(halfLifeHours * HourMs)
             halfLives  == RDiv(RSub(R(0), timeElapsedMs), halfLifeMs)
         IN  FMul(F(initialDose), Pow05(halfLives))

calculateSingleDoseConcentration(initialDose, halfLifeHours, timeElapsedMs) ==
    IF RLt(timeElapsedMs, R(0)) THEN FZero
    ELSE LET halfLifeMs == R(halfLifeHours * HourMs)
             halfLives  == RDiv(timeElapsedMs, halfLifeMs)
         IN  FMul(F(initialDose), Pow05(halfLives))

\* the statements of calculateSingleDoseConcentration that a call runs: the
\* early return, or the division and Math.pow
calculateSingleDoseConcentrationPath(initialDose, halfLifeHours, timeElapsedMs) ==
    IF RLt(timeElapsedMs, R(0)) THEN <<"return 0">>
    ELSE <<"halfLifeMs", "halfLives", "Math.pow">>

\* the for-loop of calculateTotalConcentration over doses[i..], from acc
RECURSIVE TotalLoop(_, _, _, _, _)
TotalLoop(doses, drug, timeMs, i, totalConcentration) ==
    IF i > Len(doses) THEN totalConcentration
    ELSE LET dose        == doses[i]
             timeElapsed == RSub(timeMs, R(dose.administrationTime))
         IN  IF RLe(R(0), timeElapsed)
             THEN TotalLoop(doses, drug, timeMs, i + 1,
                      FAdd(totalConcentration,
                           calculateSingleDoseConcentration(
                               dose.initialDose, drug.halfLife, timeElapsed)))
             ELSE TotalLoop(doses, drug, timeMs, i + 1, totalConcentration)

\* a plausible slip: the elapsed time is taken with the wrong sign
RECURSIVE TotalLoop_Flipped(_, _, _, _, _)
TotalLoop_Flipped(doses, drug, timeMs, i, totalConcentration) ==
    IF i > Len(doses) THEN totalConcentration
    ELSE LET dose        == doses[i]
             timeElapsed == RSub(R(dose.administrationTime), timeMs)
         IN  IF RLe(R(0), timeElapsed)
             THEN TotalLoop_Flipped(doses, drug, timeMs, i + 1,
                      FAdd(totalConcentration,
                           calculateSingleDoseConcentration(
                               dose.initialDose, drug.halfLife, timeElapsed)))
             ELSE TotalLoop_Flipped(doses, drug, timeMs, i + 1, totalConcentration)

\* a plausible slip: the loop guard is strict, a dose given at timeMs is skipped
calculateTotalConcentration_Strict(doses, drug, timeMs) ==
    TotalLoop(SelectSeq(doses, LAMBDA dose : R(dose.administrationTime) # timeMs),
              drug, timeMs, 1, FZero)

\* a plausible slip: the total is assigned instead of accumulated
calculateTotalConcentration_Assign(doses, drug, timeMs) ==
    LET given == SelectSeq(doses, LAMBDA dose : RLe(R(dose.administrationTime), timeMs))
    IN  IF given = <<>> THEN FZero
        ELSE TotalLoop(<<given[Len(given)]>>, drug, timeMs, 1, FZero)

calculateTotalConcentration_Flipped(doses, drug, timeMs) ==
    TotalLoop_Flipped(doses, drug, timeMs, 1, FZero)

calculateTotalConcentration(doses, drug, timeMs) ==
    TotalLoop(doses, drug, timeMs, 1, FZero)

(***************************************************************************)
(* Types (types.ts) and the values the model draws its inputs from.        *)
(***************************************************************************)
Drug(id, name, halfLife) ==
    [id |-> id, name |-> name, halfLife |-> halfLife, color |-> "hsl"]

DoseEntry(id, drugId, initialDose, administrationTime) ==
    [id |-> id, drugId |-> drugId, initialDose |-> initialDose,
     administrationTime |-> administrationTime]

HalfHour == HourMs \div 2

Amounts == (0..MaxDose) \cup {100, 200}

HalfLifeValues == (1..MaxHalfLife) \cup {24}

ElapsedValues(halfLifeHours) ==
    {R(k * HalfHour) : k \in (-MaxElapsed)..MaxElapsed}
        \cup {Rat(k, 2) : k \in (-MaxElapsed)..MaxElapsed}
        \cup {R(n * halfLifeHours * HourMs) : n \in 0..MaxHalfLives}

NoCall == [fn |-> "none"]

NoHistory == [past |-> <<>>, present |-> [drugs |-> <<>>, doseEntries |-> <<>>],
              future |-> <<>>]

NoRange == [start |-> 0, end |-> 0]

AppIdle ==
    /\ history = NoHistory
    /\ timeRange = NoRange
    /\ plottedDrugs = <<>>
    /\ nextId = 1

(***************************************************************************)
(* SpecDecay: calculateSingleDoseConcentration applied to drawn arguments. *)
(***************************************************************************)
InitDecay ==
    /\ pc = "ready"
    /\ \E initialDose \in Amounts, halfLifeHours \in HalfLifeValues :
         \E timeElapsedMs \in ElapsedValues(halfLifeHours) :
            input = [fn |-> "calculateSingleDoseConcentration",
                     initialDose |-> initialDose,
                     halfLifeHours |-> halfLifeHours,
                     timeElapsedMs |-> timeElapsedMs]
    /\ output = FZero
    /\ path = <<>>
    /\ AppIdle

CallSingleDose ==
    /\ pc = "ready"
    /\ input.fn = "calculateSingleDoseConcentration"
    /\ output' = calculateSingleDoseConcentration(
                     input.initialDose, input.halfLifeHours, input.timeElapsedMs)
    /\ path' = calculateSingleDoseConcentrationPath(
                   input.initialDose, input.halfLifeHours, input.timeElapsedMs)
    /\ pc' = "done"
    /\ UNCHANGED <<input, appVars>>

NextDecay == CallSingleDose

SpecDecay == InitDecay /\ [][NextDecay]_vars

\* the value v halved n times (v / 2 / 2 ... / 2): only the exponent moves
Halved(v, n) == IF v.m = 0 THEN v ELSE [m |-> v.m, e |-> v.e + n]

\* C1: calculateSingleDoseConcentration(D, H, 0) returns exactly D, for every
\* initial amount D >= 0 and every half-life H > 0.
C1_ZeroElapsedReturnsInitialDose ==
    (pc = "done" /\ input.fn = "calculateSingleDoseConcentration"
        /\ input.timeElapsedMs = R(0))
    => output = F(input.initialDose)

C1_Witness ==
    /\ pc = "done"
    /\ input.fn = "calculateSingleDoseConcentration"
    /\ input.timeElapsedMs = R(0)
    /\ input.initialDose = 200
    /\ output = F(200)

\* C2: calculateSingleDoseConcentration(D, H, e) returns exactly 0 for every
\* negative elapsed time e, whatever D and H > 0 are.
C2_NegativeElapsedReturnsZero ==
    (pc = "done" /\ input.fn = "calculateSingleDoseConcentration"
        /\ RLt(input.timeElapsedMs, R(0)))
    => output = FZero

C2_Witness ==
    /\ pc = "done"
    /\ input.fn = "calculateSingleDoseConcentration"
    /\ input.timeElapsedMs = Rat(-1, 2)
    /\ input.initialDose = 100
    /\ output = FZero

\* C7: n half-lives after administration the concentration of a single dose
\* of D equals D * 0.5^n, for every whole n from 0 to 40.
C7_HalvesEveryHalfLife ==
    (pc = "done" /\ input.fn = "calculateSingleDoseConcentration")
    => \A n \in 0..MaxHalfLives :
          input.timeElapsedMs = R(n * input.halfLifeHours * HourMs)
          => output = Halved(F(input.initialDose), n)

C7_Witness ==
    /\ pc = "done"
    /\ input.fn = "calculateSingleDoseConcentration"
    /\ input.initialDose = 100
    /\ input.halfLifeHours = 24
    /\ input.timeElapsedMs = R(MaxHalfLives * 24 * HourMs)
    /\ output = [m |-> F(100).m, e |-> F(100).e + MaxHalfLives]

(***************************************************************************)
(* SpecTotal: calculateTotalConcentration applied to drawn arguments.      *)
(***************************************************************************)
DoseAmounts == {MaxDose, 200}

DoseTimes == {k * HalfHour : k \in 0..MaxTime}

\* every dose list of at most MaxDoses entries; the ids are the positions
DoseLists(drugId) ==
    UNION { { [i \in 1..n |-> DoseEntry(i, drugId, f[i][1], f[i][2])] :
                f \in [1..n -> DoseAmounts \X DoseTimes] } : n \in 0..MaxDoses }

\* the instants asked for: whole half hours and one instant in between
SampleInstants == {R(k * HalfHour) : k \in 0..MaxTime} \cup {Rat(3 * HalfHour, 2)}

InitTotal ==
    /\ pc = "ready"
    /\ \E halfLife \in {1, MaxHalfLife}, timeMs \in SampleInstants :
         \E doses \in DoseLists(1) :
            input = [fn |-> "calculateTotalConcentration",
                     doses |-> doses,
                     drug |-> Drug(1, "a", halfLife),
                     timeMs |-> timeMs]
    /\ output = FZero
    /\ path = <<>>
    /\ AppIdle

CallTotal ==
    /\ pc = "ready"
    /\ input.fn = "calculateTotalConcentration"
    /\ output' = calculateTotalConcentration(input.doses, input.drug, input.timeMs)
    /\ pc' = "done"
    /\ UNCHANGED <<input, path, appVars>>

NextTotal == CallTotal

SpecTotal == InitTotal /\ [][NextTotal]_vars

\* what one dose adds at timeMs: its full amount at its own instant, its
\* decayed amount afterwards
Contribution(dose, drug, timeMs) ==
    IF R(dose.administrationTime) = timeMs
    THEN F(dose.initialDose)
    ELSE calculateSingleDoseConcentration(
             dose.initialDose, drug.halfLife,
             RSub(timeMs, R(dose.administrationTime)))

\* the contributions of a dose list added up from the left, starting from 0
RECURSIVE SumOfContributions(_, _, _)
SumOfContributions(doses, drug, timeMs) ==
    IF doses = <<>> THEN FZero
    ELSE FAdd(SumOfContributions(SubSeq(doses, 1, Len(doses) - 1), drug, timeMs),
              Contribution(doses[Len(doses)], drug, timeMs))

GivenBy(doses, timeMs) ==
    SelectSeq(doses, LAMBDA dose : RLe(R(dose.administrationTime), timeMs))

WithoutIndex(doses, i) ==
    SubSeq(doses, 1, i - 1) \o SubSeq(doses, i + 1, Len(doses))

TotalDone == pc = "done" /\ input.fn = "calculateTotalConcentration"

\* C3: calculateTotalConcentration(doses, drug, t) is the sum, over the doses
\* of the input sequence given at or before t, of the single-dose
\* concentration at t; a dose given exactly at t adds its full amount and the
\* result is 0 for an empty sequence.
C3_TotalIsSumOfGivenDoses ==
    TotalDone =>
        /\ output = SumOfContributions(GivenBy(input.doses, input.timeMs),
                                       input.drug, input.timeMs)
        /\ (input.doses = <<>> => output = FZero)

C3_Witness ==
    /\ TotalDone
    /\ Len(input.doses) = 3
    /\ input.timeMs = R(HalfHour)
    /\ input.doses[1].administrationTime = 0
    /\ input.doses[2].administrationTime = HalfHour
    /\ input.doses[3].administrationTime = 2 * HalfHour
    /\ input.doses[1].initialDose = 200
    /\ input.doses[2].initialDose = MaxDose
    /\ input.drug.halfLife = 1
    /\ output = FAdd(FMul(F(200), Pow05(Rat(1, 2))), F(MaxDose))

\* C4: when the dose of amount D given at T is the only dose, or every other
\* dose is given later than T, calculateTotalConcentration at T is exactly D.
C4_ExactAmountAtAdministration ==
    TotalDone =>
        \A i \in 1..Len(input.doses) :
            ( /\ input.timeMs = R(input.doses[i].administrationTime)
              /\ \A j \in 1..Len(input.doses) :
                    j # i => input.doses[j].administrationTime
                                 > input.doses[i].administrationTime )
            => output = F(input.doses[i].initialDose)

C4_Witness ==
    /\ TotalDone
    /\ Len(input.doses) = 2
    /\ input.doses[1].administrationTime = 2 * HalfHour
    /\ input.doses[2].administrationTime = HalfHour
    /\ input.doses[2].initialDose = 200
    /\ input.doses[1].initialDose = MaxDose
    /\ input.timeMs = R(HalfHour)
    /\ output = F(200)

\* C6: a dose given strictly after t adds exactly 0 to
\* calculateTotalConcentration(doses, drug, t): the result is that of the
\* input without that dose.
C6_LaterDoseContributesZero ==
    TotalDone =>
        \A i \in 1..Len(input.doses) :
            RLt(input.timeMs, R(input.doses[i].administrationTime))
            => /\ output = calculateTotalConcentration(
                               WithoutIndex(input.doses, i), input.drug, input.timeMs)
               /\ calculateTotalConcentration(
                      <<input.doses[i]>>, input.drug, input.timeMs) = FZero

C6_Witness ==
    /\ TotalDone
    /\ Len(input.doses) = 2
    /\ input.doses[1].administrationTime = 0
    /\ input.doses[2].administrationTime = 2 * HalfHour
    /\ input.doses[1].initialDose = 200
    /\ input.doses[2].initialDose = 200
    /\ input.timeMs = Rat(3 * HalfHour, 2)
    /\ output # FZero
    /\ output = calculateTotalConcentration(<<input.doses[1]>>, input.drug, input.timeMs)

(***************************************************************************)
(* useUndoRedo.ts                                                          *)
(***************************************************************************)
canUndo(h) == Len(h.past) > 0

canRedo(h) == Len(h.future) > 0

\* a plausible slip: undo keeps only the state it leaves as the future
undo_Forgetful(currentState) ==
    IF Len(currentState.past) = 0 THEN currentState
    ELSE [past    |-> SubSeq(currentState.past, 1, Len(currentState.past) - 1),
          present |-> currentState.past[Len(currentState.past)],
          future  |-> <<currentState.present>>]

undo(currentState) ==
    IF Len(currentState.past) = 0 THEN currentState
    ELSE LET previous == currentState.past[Len(currentState.past)]
             newPast  == SubSeq(currentState.past, 1, Len(currentState.past) - 1)
         IN  [past    |-> newPast,
              present |-> previous,
              future  |-> <<currentState.present>> \o currentState.future]

redo(currentState) ==
    IF Len(currentState.future) = 0 THEN currentState
    ELSE LET next      == currentState.future[1]
             newFuture == SubSeq(currentState.future, 2, Len(currentState.future))
         IN  [past    |-> Append(currentState.past, currentState.present),
              present |-> next,
              future  |-> newFuture]

\* a plausible slip: a state update keeps the future
updateState_KeepsFuture(currentState, newPresent) ==
    [past    |-> Append(currentState.past, currentState.present),
     present |-> newPresent,
     future  |-> currentState.future]

updateState(currentState, newPresent) ==
    [past    |-> Append(currentState.past, currentState.present),
     present |-> newPresent,
     future  |-> <<>>]

(***************************************************************************)
(* App.tsx                                                                 *)
(***************************************************************************)
\* the instant the application is opened at, three days after tick 0
Now == 72 * HourMs

Day == 24 * HourMs

RECURSIVE MinOf(_)
MinOf(times) ==
    IF Len(times) = 1 THEN times[1]
    ELSE LET m == MinOf(Tail(times)) IN IF times[1] < m THEN times[1] ELSE m

RECURSIVE MaxOf(_)
MaxOf(times) ==
    IF Len(times) = 1 THEN times[1]
    ELSE LET m == MaxOf(Tail(times)) IN IF times[1] > m THEN times[1] ELSE m

TimesOf(doses) == [i \in 1..Len(doses) |-> doses[i].administrationTime]

\* a plausible slip: a dose whose drug is unknown is put with the first drug
PlottedDrugsOf_CatchAll(drugs, doseEntries) ==
    LET known(dose) == \E k \in 1..Len(drugs) : drugs[k].id = dose.drugId
        all == [k \in 1..Len(drugs) |->
                   [drug  |-> drugs[k],
                    doses |-> SelectSeq(doseEntries,
                                 LAMBDA dose : \/ dose.drugId = drugs[k].id
                                               \/ (k = 1 /\ ~known(dose)))]]
    IN  SelectSeq(all, LAMBDA plotted : Len(plotted.doses) > 0)

\* a plausible slip: the groups without doses are not filtered out
PlottedDrugsOf_Unfiltered(drugs, doseEntries) ==
    [k \in 1..Len(drugs) |->
        [drug  |-> drugs[k],
         doses |-> SelectSeq(doseEntries, LAMBDA dose : dose.drugId = drugs[k].id)]]

\* the body of the plottedDrugs memo: one group per drug, in the order of the
\* drugs, holding the doses whose drugId is the drug's id, empty groups dropped
PlottedDrugsOf(drugs, doseEntries) ==
    LET group(k) ==
            [drug  |-> drugs[k],
             doses |-> SelectSeq(doseEntries,
                                 LAMBDA dose : dose.drugId = drugs[k].id)]
        \* Map.set keeps the first position of a key and its last value
        kept == SelectSeq([k \in 1..Len(drugs) |-> k],
                          LAMBDA k : \A j \in 1..(k - 1) : drugs[j].id # drugs[k].id)
        lastOf(k) == CHOOSE j \in k..Len(drugs) :
                        /\ drugs[j].id = drugs[k].id
                        /\ \A i \in (j + 1)..Len(drugs) : drugs[i].id # drugs[k].id
        all == [n \in 1..Len(kept) |-> group(lastOf(kept[n]))]
    IN  SelectSeq(all, LAMBDA plotted : Len(plotted.doses) > 0)

drugs == history.present.drugs

doseEntries == history.present.doseEntries

\* every state update re-renders: the memo is recomputed from the new state
Rendered(newHistory) ==
    plottedDrugs' = PlottedDrugsOf(newHistory.present.drugs,
                                   newHistory.present.doseEntries)

handleAddDrug(drug) ==
    /\ history' = updateState(history,
                     [drugs |-> Append(drugs, drug), doseEntries |-> doseEntries])
    /\ Rendered(history')
    /\ UNCHANGED timeRange

\* a plausible slip: the window is put around the new dose instead of widened
handleAddDose_Recentre(dose) ==
    LET newDoses == Append(doseEntries, dose)
        doseTime == dose.administrationTime
    IN  /\ history' = updateState(history,
                         [drugs |-> drugs, doseEntries |-> newDoses])
        /\ Rendered(history')
        /\ IF doseTime < timeRange.start \/ doseTime > timeRange.end
           THEN timeRange' = [start |-> doseTime - Day, end |-> doseTime + Day]
           ELSE UNCHANGED timeRange

handleAddDose(dose) ==
    LET newDoses == Append(doseEntries, dose)
        doseTime == dose.administrationTime
    IN  /\ history' = updateState(history,
                         [drugs |-> drugs, doseEntries |-> newDoses])
        /\ Rendered(history')
        /\ IF doseTime < timeRange.start \/ doseTime > timeRange.end
           THEN timeRange' =
                  [start |-> IF doseTime - Day < timeRange.start
                             THEN doseTime - Day ELSE timeRange.start,
                   end   |-> IF doseTime + Day > timeRange.end
                             THEN doseTime + Day ELSE timeRange.end]
           ELSE UNCHANGED timeRange

\* a plausible slip: the grouping of doses is not recomputed after a deletion
handleDeleteDose_Stale(doseId) ==
    LET newDoses == SelectSeq(doseEntries, LAMBDA dose : dose.id # doseId)
    IN  /\ history' = updateState(history,
                         [drugs |-> drugs, doseEntries |-> newDoses])
        /\ UNCHANGED <<plottedDrugs, timeRange>>

handleDeleteDose(doseId) ==
    LET newDoses == SelectSeq(doseEntries, LAMBDA dose : dose.id # doseId)
        found    == SelectSeq(doseEntries, LAMBDA dose : dose.id = doseId)
    IN  /\ history' = updateState(history,
                         [drugs |-> drugs, doseEntries |-> newDoses])
        /\ Rendered(history')
        /\ IF Len(newDoses) > 0
           THEN LET minTime == MinOf(TimesOf(newDoses))
                    maxTime == MaxOf(TimesOf(newDoses))
                IN  \* deletedTime is falsy when no dose has the id or it is 0
                    IF /\ Len(found) > 0
                       /\ found[1].administrationTime # 0
                       /\ \/ found[1].administrationTime <= minTime + Day
                          \/ found[1].administrationTime >= maxTime - Day
                    THEN timeRange' = [start |-> minTime - Day,
                                       end   |-> maxTime + Day]
                    ELSE UNCHANGED timeRange
           ELSE UNCHANGED timeRange

(***************************************************************************)
(* Spec: the application, driven by its forms and buttons.                 *)
(***************************************************************************)
Names == {"a", "b"}

AppHalfLives == {1, MaxHalfLife}

AppAmounts == {MaxDose, 200}

AppTimes == {Now - 2 * Day, Now - HourMs, Now}

Init ==
    /\ pc = "app"
    /\ input = NoCall
    /\ output = FZero
    /\ path = <<>>
    /\ history = NoHistory
    /\ timeRange = [start |-> Now - Day, end |-> Now]
    /\ plottedDrugs = <<>>
    /\ nextId = 1

\* DrugDefinitionForm.handleSubmit
DrugFormSubmit ==
    /\ pc = "app"
    /\ nextId <= MaxId
    /\ Len(history.past) < MaxPast
    /\ Len(drugs) < MaxDrugs
    /\ \E name \in Names, halfLife \in AppHalfLives :
          handleAddDrug(Drug(nextId, name, halfLife))
    /\ nextId' = nextId + 1
    /\ UNCHANGED callVars

\* a plausible slip: the form does not check that the selected drug exists
DoseFormSubmit_NoCheck ==
    /\ pc = "app"
    /\ nextId <= MaxId
    /\ Len(history.past) < MaxPast
    /\ Len(doseEntries) < MaxEntries
    /\ \E selectedDrugId \in (0..(nextId - 1)) \cup {drugs[k].id : k \in 1..Len(drugs)} :
          \E initialDose \in AppAmounts, administrationTime \in AppTimes :
              handleAddDose(DoseEntry(nextId, selectedDrugId,
                                      initialDose, administrationTime))
    /\ nextId' = nextId + 1
    /\ UNCHANGED callVars

\* DoseForm.handleSubmit, for the drug picked in the form
DoseFormSubmit ==
    /\ pc = "app"
    /\ nextId <= MaxId
    /\ Len(history.past) < MaxPast
    /\ Len(doseEntries) < MaxEntries
    /\ \E selectedDrugId \in (0..(nextId - 1)) \cup {drugs[k].id : k \in 1..Len(drugs)},
          searchTerm \in Names \cup {""} :
          LET drugExists == \E k \in 1..Len(drugs) :
                                /\ drugs[k].name = searchTerm
                                /\ drugs[k].id = selectedDrugId
          IN  /\ drugExists
              /\ \E initialDose \in AppAmounts, administrationTime \in AppTimes :
                    handleAddDose(DoseEntry(nextId, selectedDrugId,
                                            initialDose, administrationTime))
    /\ nextId' = nextId + 1
    /\ UNCHANGED callVars

\* DoseForm.handleRedose: the latest dose again, 24 hours later
DoseFormRedose ==
    /\ pc = "app"
    /\ nextId <= MaxId
    /\ Len(history.past) < MaxPast
    /\ Len(doseEntries) < MaxEntries
    /\ Len(doseEntries) # 0
    /\ LET latest == MaxOf(TimesOf(doseEntries))
           \* the stable sort keeps the first of the doses given last in front
           first  == CHOOSE i \in 1..Len(doseEntries) :
                        /\ doseEntries[i].administrationTime = latest
                        /\ \A j \in 1..(i - 1) :
                              doseEntries[j].administrationTime # latest
           latestDose == doseEntries[first]
       IN  handleAddDose(DoseEntry(nextId, latestDose.drugId, latestDose.initialDose,
                                   latestDose.administrationTime + 24 * HourMs))
    /\ nextId' = nextId + 1
    /\ UNCHANGED callVars

\* the delete button of a dose of the history list or of the graph
DeleteDose ==
    /\ pc = "app"
    /\ Len(history.past) < MaxPast
    /\ \E i \in 1..Len(doseEntries) : handleDeleteDose(doseEntries[i].id)
    /\ UNCHANGED <<callVars, nextId>>

\* the Undo button, enabled while canUndo
Undo ==
    /\ pc = "app"
    /\ canUndo(history)
    /\ history' = undo(history)
    /\ Rendered(history')
    /\ UNCHANGED <<callVars, timeRange, nextId>>

\* the Redo button, enabled while canRedo
Redo ==
    /\ pc = "app"
    /\ canRedo(history)
    /\ history' = redo(history)
    /\ Rendered(history')
    /\ UNCHANGED <<callVars, timeRange, nextId>>

Next ==
    \/ DrugFormSubmit
    \/ DoseFormSubmit
    \/ DoseFormRedose
    \/ DeleteDose
    \/ Undo
    \/ Redo

Spec == Init /\ [][Next]_vars

DosesOfDrug(entries, drugId) == SelectSeq(entries, LAMBDA dose : dose.drugId = drugId)

\* the instants the totals are compared at: every dose instant, the middle of
\* the hour after it and the end of the window
ProbeInstants ==
    {R(doseEntries[i].administrationTime) : i \in 1..Len(doseEntries)}
        \cup {Rat(2 * doseEntries[i].administrationTime + HourMs, 2) :
                 i \in 1..Len(doseEntries)}
        \cup {R(timeRange.end)}

\* C5: after any sequence of add-dose and delete-dose operations (and undo,
\* redo) the concentration of a substance is the fresh sum over exactly the
\* doses of the current state: no plotted group holds a dose that is not in
\* the current state, so a deleted dose adds nothing.
C5_ConcentrationFromCurrentDoses ==
    pc = "app" =>
        /\ \A g \in 1..Len(plottedDrugs) : \A i \in 1..Len(plottedDrugs[g].doses) :
              \E j \in 1..Len(doseEntries) : doseEntries[j] = plottedDrugs[g].doses[i]
        /\ \A k \in 1..Len(drugs) :
              LET current == DosesOfDrug(doseEntries, drugs[k].id)
                  groups  == {g \in 1..Len(plottedDrugs) :
                                 plottedDrugs[g].drug.id = drugs[k].id}
              IN  IF current = <<>> THEN groups = {}
                  ELSE /\ Cardinality(groups) = 1
                       /\ \A g \in groups : \A t \in ProbeInstants :
                             calculateTotalConcentration(
                                 plottedDrugs[g].doses, plottedDrugs[g].drug, t)
                             = SumOfContributions(GivenBy(current, t), drugs[k], t)

\* a dose was deleted from a drug that keeps another dose, and the total at
\* the end of the window differs from the total before the deletion
C5_Witness ==
    /\ pc = "app"
    /\ Len(history.past) > 0
    /\ Len(history.past[Len(history.past)].doseEntries) = 2
    /\ Len(doseEntries) = 1
    /\ Len(plottedDrugs) = 1
    /\ plottedDrugs[1].doses = doseEntries
    /\ calculateTotalConcentration(plottedDrugs[1].doses, plottedDrugs[1].drug,
                                   R(doseEntries[1].administrationTime + HourMs))
       # calculateTotalConcentration(history.past[Len(history.past)].doseEntries,
                                     plottedDrugs[1].drug,
                                     R(doseEntries[1].administrationTime + HourMs))

(***************************************************************************)
(* DecayGraph.tsx: the adaptive sampler.                                   *)
(***************************************************************************)
minPointsPerHalfLife == 10

maxPoints == 2000

\* new Date(time).getTime(): the time value of a Date drops the fraction
DateOf(time) ==
    IF time.n >= 0 THEN time.n \div time.d ELSE -((-time.n) \div time.d)

\* a plausible slip: the instants are pushed on an array, not added to a Set
SetAdd_Push(sampleTimes, time) == Append(sampleTimes, time)

\* Set.add on a Set kept in insertion order
SetAdd(sampleTimes, time) ==
    IF \E k \in 1..Len(sampleTimes) : sampleTimes[k] = time
    THEN sampleTimes
    ELSE Append(sampleTimes, time)

\* a plausible slip: the density factor minPointsPerHalfLife is left out
numPointsFor_NoDensity(totalDuration, drug) ==
    LET halfLifeMs    == drug.halfLife * HourMs
        basePoints    == RMax(R(200), RDiv(R(totalDuration), R(halfLifeMs)))
    IN  RMin(R(maxPoints), RMax(basePoints, R(100)))

\* a plausible slip: the fixed count of the earlier sampler
numPointsFor_Fixed(totalDuration, drug) == R(100)

\* basePoints and numPoints for a window of totalDuration
numPointsFor(totalDuration, drug) ==
    LET halfLifeMs    == drug.halfLife * HourMs
        basePoints    == RMax(R(200),
                              RMul(RDiv(R(totalDuration), R(halfLifeMs)),
                                   R(minPointsPerHalfLife)))
    IN  RMin(R(maxPoints), RMax(basePoints, R(100)))

numPointsOf(drug) == numPointsFor(timeRange.end - timeRange.start, drug)

\* a plausible slip: only the instants around a dose are added, not its own
RECURSIVE AddDoseTimes_AroundOnly(_, _, _, _)
AddDoseTimes_AroundOnly(sampleTimes, drug, doses, i) ==
    IF i > Len(doses) THEN sampleTimes
    ELSE LET startTime  == timeRange.start
             endTime    == timeRange.end
             halfLifeMs == drug.halfLife * HourMs
             doseTime   == doses[i].administrationTime
             around     == RMul(R(halfLifeMs), Rat(1, 10))
         IN  IF doseTime >= startTime /\ doseTime <= endTime
             THEN AddDoseTimes_AroundOnly(
                      SetAdd(SetAdd(sampleTimes,
                                    RMax(R(startTime), RSub(R(doseTime), around))),
                             RMin(R(endTime), RAdd(R(doseTime), around))),
                      drug, doses, i + 1)
             ELSE AddDoseTimes_AroundOnly(sampleTimes, drug, doses, i + 1)

\* a plausible slip: the instants around a dose are not added
RECURSIVE AddDoseTimes_NoGuards(_, _, _, _)
AddDoseTimes_NoGuards(sampleTimes, drug, doses, i) ==
    IF i > Len(doses) THEN sampleTimes
    ELSE LET startTime  == timeRange.start
             endTime    == timeRange.end
             doseTime   == doses[i].administrationTime
         IN  IF doseTime >= startTime /\ doseTime <= endTime
             THEN AddDoseTimes_NoGuards(SetAdd(sampleTimes, R(doseTime)),
                                        drug, doses, i + 1)
             ELSE AddDoseTimes_NoGuards(sampleTimes, drug, doses, i + 1)

\* doses.forEach: the dose instants inside the window and the two instants
\* a tenth of a half-life around each, kept inside the window
RECURSIVE AddDoseTimes(_, _, _, _)
AddDoseTimes(sampleTimes, drug, doses, i) ==
    IF i > Len(doses) THEN sampleTimes
    ELSE LET startTime  == timeRange.start
             endTime    == timeRange.end
             halfLifeMs == drug.halfLife * HourMs
             doseTime   == doses[i].administrationTime
             around     == RMul(R(halfLifeMs), Rat(1, 10))
         IN  IF doseTime >= startTime /\ doseTime <= endTime
             THEN AddDoseTimes(
                      SetAdd(SetAdd(SetAdd(sampleTimes, R(doseTime)),
                                    RMax(R(startTime), RSub(R(doseTime), around))),
                             RMin(R(endTime), RAdd(R(doseTime), around))),
                      drug, doses, i + 1)
             ELSE AddDoseTimes(sampleTimes, drug, doses, i + 1)

\* the for-loop over i = 0 .. numPoints adding startTime + i * step; the
\* instants of the loop move one way, so an instant already added by the
\* loop is the one just before
AddRegularTimes(sampleTimes, drug) ==
    LET startTime     == timeRange.start
        totalDuration == timeRange.end - timeRange.start
        numPoints     == numPointsOf(drug)
        step          == RDiv(R(totalDuration), numPoints)
        last          == RFloor(numPoints)
        regular       == [k \in 1..(last + 1) |->
                             RAdd(R(startTime), RMul(R(k - 1), step))]
        present       == {sampleTimes[k] : k \in 1..Len(sampleTimes)}
        fresh         == SelectSeq([k \in 1..(last + 1) |-> k],
                             LAMBDA k : /\ regular[k] \notin present
                                        /\ k > 1 => regular[k] # regular[k - 1])
    IN  sampleTimes \o [n \in 1..Len(fresh) |-> regular[fresh[n]]]

\* the instants the curve is evaluated at: Array.from(sampleTimes).sort(...)
sortedTimesOf(drug, doses) ==
    SortSeq(AddRegularTimes(AddDoseTimes(<<>>, drug, doses, 1), drug), RLt)

calculateDecayPoints(drug, doses) ==
    IF Len(doses) = 0 THEN <<>>
    ELSE LET sortedTimes == sortedTimesOf(drug, doses)
         IN  [k \in 1..Len(sortedTimes) |->
                 [x |-> DateOf(sortedTimes[k]),
                  y |-> calculateTotalConcentration(doses, drug, sortedTimes[k])]]

\* a plausible slip: the markers are not restricted to the window
doseMarkers_Unfiltered(drug, doses) ==
    [k \in 1..Len(doses) |->
        [x           |-> doses[k].administrationTime,
         y           |-> calculateTotalConcentration(
                             doses, drug, R(doses[k].administrationTime)),
         doseId      |-> doses[k].id,
         isDosePoint |-> TRUE]]

\* doses.filter(...).map(...): one marker per dose given inside the window
doseMarkers(drug, doses) ==
    LET inside == SelectSeq(doses,
                      LAMBDA dose : /\ dose.administrationTime >= timeRange.start
                                    /\ dose.administrationTime <= timeRange.end)
    IN  [k \in 1..Len(inside) |->
            [x           |-> inside[k].administrationTime,
             y           |-> calculateTotalConcentration(
                                 doses, drug, R(inside[k].administrationTime)),
             doseId      |-> inside[k].id,
             isDosePoint |-> TRUE]]

\* plottedDrugs.map(...).flat(): for each group the decay curve, then its
\* dose markers
RECURSIVE datasetsFrom(_)
datasetsFrom(g) ==
    IF g > Len(plottedDrugs) THEN <<>>
    ELSE LET drug  == plottedDrugs[g].drug
             doses == plottedDrugs[g].doses
         IN  << [label |-> <<drug.name>>,
                 data  |-> calculateDecayPoints(drug, doses)],
                [label |-> <<drug.name, "Doses">>,
                 data  |-> doseMarkers(drug, doses)] >>
             \o datasetsFrom(g + 1)

datasets == datasetsFrom(1)

(***************************************************************************)
(* SpecSampler: calculateDecayPoints applied to a drawn window, drug and   *)
(* dose list.                                                              *)
(***************************************************************************)
WindowStart == HalfHour

Durations == {0, 1, MaxElapsed, 70 * HourMs, 200 * HourMs, 250 * HourMs}

Windows == {[start |-> WindowStart, end |-> WindowStart + d] : d \in Durations}

\* instants before, at the edges of, inside and after the window
TimesAround(window) ==
    {window.start - 1, window.start, window.start + 1, window.end, window.end + 1}

SamplerDoseLists(window) ==
    UNION { { [i \in 1..n |-> DoseEntry(i, 1, 200, f[i])] :
                f \in [1..n -> TimesAround(window)] } : n \in 1..2 }

\* the end-to-end case of the specification: a drug of half-life 24 h, one
\* dose of 100 at 0 and the window of 40 days from 0
EndToEndCase ==
    /\ timeRange = [start |-> 0, end |-> MaxHalfLives * 24 * HourMs]
    /\ input = [fn |-> "calculateDecayPoints",
                drug |-> Drug(1, "a", 24),
                doses |-> <<DoseEntry(1, 1, 100, 0)>>]
    /\ plottedDrugs = <<>>

InitSampler ==
    /\ pc = "ready"
    /\ \/ /\ timeRange \in Windows
          /\ \E halfLife \in {1, MaxHalfLife} :
               \E doses \in SamplerDoseLists(timeRange) :
                  \/ /\ input = [fn |-> "calculateDecayPoints",
                                 drug |-> Drug(1, "a", halfLife),
                                 doses |-> doses]
                     /\ plottedDrugs = <<>>
                  \* the graph rendered for one drug with these doses
                  \/ /\ input = [fn |-> "datasets"]
                     /\ plottedDrugs = <<[drug  |-> Drug(1, "a", halfLife),
                                          doses |-> doses]>>
       \/ EndToEndCase
    /\ output = <<>>
    /\ path = <<>>
    /\ history = NoHistory
    /\ nextId = 1

CallDecayPoints ==
    /\ pc = "ready"
    /\ input.fn = "calculateDecayPoints"
    /\ output' = calculateDecayPoints(input.drug, input.doses)
    /\ pc' = "done"
    /\ UNCHANGED <<input, path, appVars>>

\* one render of DecayGraph: the datasets handed to the chart
CallDatasets ==
    /\ pc = "ready"
    /\ input.fn = "datasets"
    /\ output' = datasets
    /\ pc' = "done"
    /\ UNCHANGED <<input, path, appVars>>

NextSampler ==
    \/ CallDecayPoints
    \/ CallDatasets

SpecSampler == InitSampler /\ [][NextSampler]_vars

SamplerDone == pc = "done" /\ input.fn = "calculateDecayPoints"

InWindow(time) == time >= timeRange.start /\ time <= timeRange.end

\* C8: the sample instants of calculateDecayPoints include the
\* administration instant of every dose that lies inside [start, end].
C8_DoseInstantsSampled ==
    SamplerDone =>
        \A i \in 1..Len(input.doses) :
            InWindow(input.doses[i].administrationTime)
            => \E k \in 1..Len(output) :
                  output[k].x = input.doses[i].administrationTime

C8_Witness ==
    /\ SamplerDone
    /\ timeRange.end - timeRange.start = 70 * HourMs
    /\ input.drug.halfLife = MaxHalfLife
    /\ Len(input.doses) = 2
    /\ input.doses[1].administrationTime = timeRange.start + 1
    /\ input.doses[2].administrationTime = timeRange.end
    /\ \E k \in 1..Len(output) : output[k].x = timeRange.start + 1
    /\ output[Len(output)].x = timeRange.end

\* C9: the sample instants returned by calculateDecayPoints are strictly
\* ascending (sorted, no instant twice) and lie within [start, end].  The
\* instants are distinct in sortedTimes; two of them less than one tick apart
\* become the same Date.
C9_InstantsStrictlyAscendingInWindow ==
    SamplerDone =>
        /\ \A k \in 1..Len(output) : InWindow(output[k].x)
        /\ \A k \in 1..(Len(output) - 1) : output[k].x < output[k + 1].x

\* C10: however small the half-life is relative to the window and however
\* many doses fall inside it, the number of sample instants does not exceed
\* maxPoints.
C10_AtMostMaxPoints ==
    SamplerDone => Len(output) <= maxPoints

\* numPoints * halfLifeMs >= minPointsPerHalfLife * W: the regular samples of a
\* window of W are at least minPointsPerHalfLife per half-life
DenseEnough(totalDuration, drug) ==
    RLe(R(minPointsPerHalfLife * totalDuration),
        RMul(numPointsFor(totalDuration, drug), R(drug.halfLife * HourMs)))

\* C11: for every window duration W, numPoints / (W / halfLifeMs) is at least
\* minPointsPerHalfLife = 10, for the window of W and for the window of 2W.
C11_DensityAtLeastMinimum ==
    SamplerDone =>
        LET W == timeRange.end - timeRange.start
        IN  /\ numPointsOf(input.drug) = numPointsFor(W, input.drug)
            /\ DenseEnough(W, input.drug)
            /\ DenseEnough(2 * W, input.drug)

\* C11, amended: the density of minPointsPerHalfLife per half-life holds for W
\* and for 2W whenever 2W is at most maxPoints / minPointsPerHalfLife = 200
\* half-lives, so that neither count is clamped to maxPoints.
C11_DensityAtLeastMinimumBelowCap ==
    SamplerDone =>
        LET W          == timeRange.end - timeRange.start
            halfLifeMs == input.drug.halfLife * HourMs
        IN  minPointsPerHalfLife * 2 * W <= maxPoints * halfLifeMs
            => /\ numPointsOf(input.drug) = numPointsFor(W, input.drug)
               /\ DenseEnough(W, input.drug)
               /\ DenseEnough(2 * W, input.drug)

\* a window of 70 half-lives: 700 regular steps, 1400 for twice the window
C11_Witness ==
    /\ SamplerDone
    /\ timeRange.end - timeRange.start = 70 * HourMs
    /\ input.drug.halfLife = 1
    /\ numPointsOf(input.drug) = R(700)
    /\ numPointsFor(2 * (timeRange.end - timeRange.start), input.drug) = R(1400)
    /\ Len(output) >= 701

\* C12: for a window of zero duration (start = end) and a drug with at least
\* one dose, calculateDecayPoints returns exactly one sample, at that instant,
\* whether or not a dose is given at that instant.
C12_ZeroDurationSingleSample ==
    (SamplerDone /\ timeRange.start = timeRange.end /\ Len(input.doses) > 0)
    => /\ Len(output) = 1
       /\ output[1].x = timeRange.start

\* one dose at the instant of the window and one after it
C12_Witness ==
    /\ SamplerDone
    /\ timeRange.start = timeRange.end
    /\ Len(input.doses) = 2
    /\ input.doses[1].administrationTime = timeRange.start
    /\ input.doses[2].administrationTime = timeRange.start + 1
    /\ output = <<[x |-> timeRange.start, y |-> F(200)]>>

DatasetsDone == pc = "done" /\ input.fn = "datasets"

\* C13: for every drug and window the dose-marker series has exactly one
\* entry per dose of the drug with start <= administration instant <= end and
\* none for a dose outside, carrying the dose's id; its value is the total
\* concentration over the drug's doses at that instant, and the decay curve
\* has a point with the same instant and value.
C13_MarkersOnCurve ==
    DatasetsDone =>
        \A g \in 1..Len(plottedDrugs) :
            LET drug    == plottedDrugs[g].drug
                doses   == plottedDrugs[g].doses
                curve   == output[2 * g - 1].data
                markers == output[2 * g].data
            IN  /\ \A i \in 1..Len(doses) :
                      Cardinality({k \in 1..Len(markers) :
                                      markers[k].doseId = doses[i].id})
                      = IF InWindow(doses[i].administrationTime) THEN 1 ELSE 0
                /\ \A k \in 1..Len(markers) :
                      \E i \in 1..Len(doses) :
                          /\ markers[k].doseId = doses[i].id
                          /\ markers[k].x = doses[i].administrationTime
                          /\ markers[k].y =
                                SumOfContributions(
                                    GivenBy(doses, R(doses[i].administrationTime)),
                                    drug, R(doses[i].administrationTime))
                          /\ \E n \in 1..Len(curve) :
                                curve[n].x = markers[k].x /\ curve[n].y = markers[k].y

\* one dose before the window and one inside it, an hour after an earlier one:
\* one marker, above the amount of its dose
C13_Witness ==
    /\ DatasetsDone
    /\ Len(plottedDrugs) = 1
    /\ Len(plottedDrugs[1].doses) = 2
    /\ plottedDrugs[1].doses[1].administrationTime = timeRange.start - 1
    /\ plottedDrugs[1].doses[2].administrationTime = timeRange.start + 1
    /\ timeRange.end > timeRange.start + 1
    /\ Len(output[2].data) = 1
    /\ output[2].data[1].doseId = 2
    /\ FLt(F(200), output[2].data[1].y)

\* C14: plottedDrugs holds exactly the drugs that have at least one dose whose
\* drugId is the drug's id, so a drug without doses is never plotted;
\* calculateDecayPoints returns the empty series for an empty dose list, and
\* with no drugs or no doses there are no series at all.
C14_OnlyDrugsWithDosesPlotted ==
    pc = "app" =>
        /\ \A g \in 1..Len(plottedDrugs) :
              /\ Len(plottedDrugs[g].doses) > 0
              /\ \E k \in 1..Len(drugs) : drugs[k] = plottedDrugs[g].drug
        /\ \A k \in 1..Len(drugs) :
              LET own == DosesOfDrug(doseEntries, drugs[k].id)
                  groups == {g \in 1..Len(plottedDrugs) :
                                plottedDrugs[g].drug = drugs[k]}
              IN  /\ Cardinality(groups) = IF own = <<>> THEN 0 ELSE 1
                  /\ own = <<>> => calculateDecayPoints(drugs[k], own) = <<>>
        /\ (drugs = <<>> \/ doseEntries = <<>>)
              => plottedDrugs = <<>> /\ datasets = <<>>

\* two drugs, a dose of the first only: one group, that of the first drug
C14_Witness ==
    /\ pc = "app"
    /\ Len(drugs) = 2
    /\ Len(doseEntries) = 1
    /\ doseEntries[1].drugId = drugs[1].id
    /\ Len(plottedDrugs) = 1
    /\ plottedDrugs[1].drug = drugs[1]
    /\ plottedDrugs[1].doses = doseEntries

(***************************************************************************)
(* SpecSaved: the application opened on a state saved in localStorage,     *)
(* which may hold doses of drugs that are not in it.                       *)
(***************************************************************************)
calculateDefaultTimeRange(doses) ==
    IF Len(doses) = 0
    THEN [start |-> Now - Day, end |-> Now]
    ELSE [start |-> MinOf(TimesOf(doses)) - Day,
          end   |-> MaxOf(TimesOf(doses)) + Day]

SavedDrugs ==
    { <<>>,
      <<Drug(21, "a", 1)>>,
      <<Drug(21, "a", 1), Drug(22, "b", MaxHalfLife)>> }

\* the drug ids a saved dose may carry; no saved drug has the last one
SavedDrugIds == {21, 22, 29}

SavedDoseLists ==
    UNION { { [i \in 1..n |-> DoseEntry(30 + i, f[i], 200, Now - HourMs)] :
                f \in [1..n -> SavedDrugIds] } : n \in 0..MaxEntries }

\* useUndoRedo(initialState) with the parsed savedState, then the effect that
\* runs once on mount
InitSaved ==
    /\ pc = "app"
    /\ input = NoCall
    /\ output = FZero
    /\ path = <<>>
    /\ \E savedDrugs \in SavedDrugs, savedDoses \in SavedDoseLists :
          /\ history = [past    |-> <<>>,
                        present |-> [drugs |-> savedDrugs, doseEntries |-> savedDoses],
                        future  |-> <<>>]
          /\ timeRange = IF Len(savedDoses) > 0
                         THEN calculateDefaultTimeRange(savedDoses)
                         ELSE [start |-> Now - Day, end |-> Now]
          /\ plottedDrugs = PlottedDrugsOf(savedDrugs, savedDoses)
    \* the ids below MaxId were given out before the state was saved
    /\ nextId = MaxId

\* the operations on doses, and undoing them
NextSaved ==
    \/ DoseFormSubmit
    \/ DoseFormRedose
    \/ DeleteDose
    \/ Undo
    \/ Redo

SpecSaved == InitSaved /\ [][NextSaved]_vars

GroupsOf(dose) == {g \in 1..Len(plottedDrugs) :
                      \E i \in 1..Len(plottedDrugs[g].doses) :
                          plottedDrugs[g].doses[i] = dose}

HasDrug(ds, drugId) == \E k \in 1..Len(ds) : ds[k].id = drugId

\* every dose is in the group of its own drug and in no other; a dose of no
\* drug is in no group; a group holds exactly the doses of its drug
AttributedOnce ==
    pc = "app" =>
        /\ \A j \in 1..Len(doseEntries) :
              /\ Cardinality(GroupsOf(doseEntries[j]))
                 = IF HasDrug(drugs, doseEntries[j].drugId) THEN 1 ELSE 0
              /\ \A g \in GroupsOf(doseEntries[j]) :
                    plottedDrugs[g].drug.id = doseEntries[j].drugId
        /\ \A g \in 1..Len(plottedDrugs) :
              plottedDrugs[g].doses
              = DosesOfDrug(doseEntries, plottedDrugs[g].drug.id)

GroupOfDrug(plotted, drugId) ==
    SelectSeq(plotted, LAMBDA group : group.drug.id = drugId)

\* a step that leaves a drug and its own doses alone leaves its group alone
OthersDoNotMatter ==
    \A k \in 1..Len(drugs) :
        ( /\ \E n \in 1..Len(drugs') : drugs'[n] = drugs[k]
          /\ DosesOfDrug(doseEntries', drugs[k].id)
             = DosesOfDrug(doseEntries, drugs[k].id) )
        => GroupOfDrug(plottedDrugs', drugs[k].id)
           = GroupOfDrug(plottedDrugs, drugs[k].id)

\* C15: every dose is attributed to at most one drug: a dose whose drugId
\* matches no drug is in no group, a dose whose drugId matches a drug is in
\* that drug's group only, and the group of a drug is not changed by adding
\* or deleting doses of another drug or of no drug.
C15_DoseAttributedToOwnDrugOnly ==
    []AttributedOnce /\ [][OthersDoNotMatter]_vars

\* a dose of no drug was deleted next to a plotted dose: the group is the same
C15_Witness ==
    /\ pc = "app"
    /\ Len(history.past) = 1
    /\ Len(history.past[1].doseEntries) = 2
    /\ history.past[1].doseEntries[1].drugId = 29
    /\ Len(doseEntries) = 1
    /\ doseEntries[1].drugId = 21
    /\ Len(drugs) = 2
    /\ plottedDrugs = <<[drug |-> drugs[1], doses |-> doseEntries]>>
    /\ plottedDrugs = PlottedDrugsOf(drugs, history.past[1].doseEntries)

\* no dose of the list is given in (t1, t2]
NoDoseIn(doses, t1, t2) ==
    \A i \in 1..Len(doses) :
        ~( /\ RLt(t1, R(doses[i].administrationTime))
           /\ RLe(R(doses[i].administrationTime), t2) )

\* the total at input.timeMs is not above the total at any earlier instant
\* that no dose separates from it
NonIncreasingBetweenDoses ==
    \A t1 \in SampleInstants :
        (RLt(t1, input.timeMs) /\ NoDoseIn(input.doses, t1, input.timeMs))
        => FLe(output, calculateTotalConcentration(input.doses, input.drug, t1))

\* C16: for a drug with half-life > 0 and doses of non-negative amounts the
\* total is non-increasing between consecutive dose instants (t1 < t2 with no
\* dose in (t1, t2] gives total(t2) <= total(t1)), and at a dose instant the
\* total is the total of the other doses plus exactly that dose's amount.
C16_NonIncreasingAndExactJump ==
    TotalDone =>
        /\ NonIncreasingBetweenDoses
        /\ \A i \in 1..Len(input.doses) :
              input.timeMs = R(input.doses[i].administrationTime)
              => output = FAdd(calculateTotalConcentration(
                                   WithoutIndex(input.doses, i), input.drug,
                                   input.timeMs),
                               F(input.doses[i].initialDose))

\* C16, amended: the total is non-increasing between consecutive dose
\* instants; at a dose instant the dose enters the sum with exactly its own
\* amount, the sum being taken in input order, so the total is the total of
\* the other doses plus the amount exactly when the dose is the last one of
\* the input given by then (otherwise up to the rounding of the additions).
C16_NonIncreasingAndJumpOfOwnAmount ==
    TotalDone =>
        /\ NonIncreasingBetweenDoses
        /\ \A i \in 1..Len(input.doses) :
              input.timeMs = R(input.doses[i].administrationTime)
              => /\ output = SumOfContributions(GivenBy(input.doses, input.timeMs),
                                                input.drug, input.timeMs)
                 /\ (\A j \in (i + 1)..Len(input.doses) :
                        RLt(input.timeMs, R(input.doses[j].administrationTime)))
                    => output = FAdd(calculateTotalConcentration(
                                         WithoutIndex(input.doses, i), input.drug,
                                         input.timeMs),
                                     F(input.doses[i].initialDose))

\* doses at 0, half an hour and an hour, asked between the last two: the total
\* is positive and below the total at the second dose
C16_Witness ==
    /\ TotalDone
    /\ Len(input.doses) = 3
    /\ input.drug.halfLife = 1
    /\ input.doses[1].administrationTime = 0
    /\ input.doses[2].administrationTime = HalfHour
    /\ input.doses[3].administrationTime = 2 * HalfHour
    /\ input.doses[1].initialDose = 200
    /\ input.doses[2].initialDose = MaxDose
    /\ input.timeMs = Rat(3 * HalfHour, 2)
    /\ FLt(output, calculateTotalConcentration(input.doses, input.drug, R(HalfHour)))
    /\ FLt(FZero, output)

\* the output has a point at the instant time
Sampled(time) == \E k \in 1..Len(output) : R(output[k].x) = time

\* C17: for every dose with instant d inside the window the output of
\* calculateDecayPoints contains d, the instant d - 0.1 * halfLifeMs raised to
\* start when it is before the window, and the instant d + 0.1 * halfLifeMs
\* lowered to end when it is after the window.
C17_GuardInstantsSampled ==
    SamplerDone =>
        \A i \in 1..Len(input.doses) :
            LET d      == input.doses[i].administrationTime
                around == Rat(input.drug.halfLife * HourMs, 10)
            IN  InWindow(d)
                => /\ Sampled(R(d))
                   /\ Sampled(RMax(R(timeRange.start), RSub(R(d), around)))
                   /\ Sampled(RMin(R(timeRange.end), RAdd(R(d), around)))

\* a dose one tick into a window of MaxElapsed ticks, the guard after it inside
\* the window and off the regular grid, the guard before it raised to start
C17_Witness ==
    /\ SamplerDone
    /\ timeRange.end - timeRange.start = MaxElapsed
    /\ input.drug.halfLife = MaxHalfLife
    /\ Len(input.doses) = 1
    /\ input.doses[1].administrationTime = timeRange.start + 1
    /\ timeRange.start + 1 + MaxHalfLife < timeRange.end
    /\ Sampled(R(timeRange.start + 1 + MaxHalfLife))
    /\ Sampled(R(timeRange.start))

EndToEndDone ==
    /\ SamplerDone
    /\ input.drug.halfLife = 24
    /\ input.doses = <<DoseEntry(1, 1, 100, 0)>>
    /\ timeRange = [start |-> 0, end |-> MaxHalfLives * 24 * HourMs]

\* C18: for a drug of half-life 24 h, one dose of 100 at t = 0 and the window
\* [0 h, 960 h], the curve of calculateDecayPoints has a sample at every
\* t = 24 h * k, k = 1..40, and its value there is 100 * 0.5^k.
C18_EndToEndHalving ==
    EndToEndDone =>
        \A k \in 1..MaxHalfLives :
            \E n \in 1..Len(output) :
                /\ output[n].x = 24 * HourMs * k
                /\ output[n].y = Halved(F(100), k)

\* the 401 samples of the case, the last one at 960 h
C18_Witness ==
    /\ EndToEndDone
    /\ Len(output) = 401
    /\ output[1] = [x |-> 0, y |-> F(100)]
    /\ output[11] = [x |-> 24 * HourMs, y |-> Halved(F(100), 1)]
    /\ output[401] = [x |-> MaxHalfLives * 24 * HourMs,
                      y |-> Halved(F(100), MaxHalfLives)]

\* C19: when the elapsed time is exactly zero,
\* calculateSingleDoseConcentration returns the initial amount without
\* evaluating the exponent path: Math.pow(0.5, ...) is not run.
C19_NoPowAtZeroElapsed ==
    (pc = "done" /\ input.fn = "calculateSingleDoseConcentration"
        /\ input.timeElapsedMs = R(0))
    => /\ output = F(input.initialDose)
       /\ \A k \in 1..Len(path) : path[k] # "Math.pow"

(***************************************************************************)
(* SpecInvalid: the two functions applied to a drug whose half-life is not *)
(* positive.                                                               *)
(***************************************************************************)
InvalidHalfLives == (-MaxHalfLife)..0

InitInvalid ==
    /\ pc = "ready"
    /\ \E halfLife \in InvalidHalfLives :
          \/ \E initialDose \in Amounts, k \in (-MaxElapsed)..MaxElapsed :
                \E timeElapsedMs \in {R(k * HalfHour), Rat(k, 2)} :
                   input = [fn |-> "calculateSingleDoseConcentration",
                            initialDose |-> initialDose,
                            halfLifeHours |-> halfLife,
                            timeElapsedMs |-> timeElapsedMs]
          \/ \E timeMs \in SampleInstants, doses \in DoseLists(1) :
                input = [fn |-> "calculateTotalConcentration",
                         doses |-> doses,
                         drug |-> Drug(1, "a", halfLife),
                         timeMs |-> timeMs]
    /\ output = FZero
    /\ path = <<>>
    /\ AppIdle

NextInvalid ==
    \/ CallSingleDose
    \/ CallTotal

SpecInvalid == InitInvalid /\ [][NextInvalid]_vars

\* the call has returned a value to its caller
Returned == pc = "done"

HalfLifeOfInput ==
    IF input.fn = "calculateSingleDoseConcentration"
    THEN input.halfLifeHours ELSE input.drug.halfLife

\* C20: for a half-life <= 0 neither calculateSingleDoseConcentration nor
\* calculateTotalConcentration returns a value (a number, NaN or Infinity):
\* the violated precondition surfaces as an error.
C20_NoValueForInvalidHalfLife ==
    (input.fn \in {"calculateSingleDoseConcentration", "calculateTotalConcentration"}
        /\ HalfLifeOfInput <= 0)
    => ~Returned

(***************************************************************************)
(* SpecDrugForm: the drug-definition form submitted with any field values. *)
(***************************************************************************)
\* what the half-life field may hold when the form is submitted
FieldHalfLives == (-1)..MaxHalfLife

\* the constraints the browser checks before it fires onSubmit: both inputs
\* are required and the half-life input has min="0"
FormValid(name, halfLife) ==
    /\ name # ""
    /\ halfLife >= 0

\* DrugDefinitionForm.handleSubmit for any content of the two fields
DrugFormSubmitFields ==
    /\ pc = "app"
    /\ nextId <= MaxId
    /\ Len(history.past) < MaxPast
    /\ Len(drugs) < MaxDrugs
    /\ \E name \in Names \cup {""}, halfLife \in FieldHalfLives :
          /\ FormValid(name, halfLife)
          /\ handleAddDrug(Drug(nextId, name, halfLife))
    /\ nextId' = nextId + 1
    /\ UNCHANGED callVars

NextDrugForm ==
    \/ DrugFormSubmitFields
    \/ Undo
    \/ Redo

SpecDrugForm == Init /\ [][NextDrugForm]_vars

\* C21: every drug the drug-definition form hands to the application state
\* has a non-empty name and a half-life > 0; a submission with a half-life
\* <= 0, 0 included, adds no drug.
C21_FormDrugsHavePositiveHalfLife ==
    pc = "app" =>
        \A k \in 1..Len(drugs) :
            /\ drugs[k].name # ""
            /\ drugs[k].halfLife > 0

\* C22: in every state reached from the empty state by adding drugs, adding
\* doses by form submit or re-dose, deleting doses, undo and redo, the drugId
\* of every dose entry is the id of a drug of the same state; a form submit
\* whose selected id and typed name match no drug adds no dose.
C22_DosesReferenceExistingDrugs ==
    pc = "app" =>
        \A j \in 1..Len(doseEntries) :
            \E k \in 1..Len(drugs) : drugs[k].id = doseEntries[j].drugId

\* a drug with a submitted dose and its re-dose a day later
C22_Witness ==
    /\ pc = "app"
    /\ Len(drugs) = 1
    /\ Len(doseEntries) = 2
    /\ doseEntries[1].drugId = drugs[1].id
    /\ doseEntries[2].drugId = drugs[1].id
    /\ doseEntries[2].administrationTime = doseEntries[1].administrationTime + Day

(***************************************************************************)
(* SpecRange: the time-range selector next to the dose operations.         *)
(***************************************************************************)
MaxSlide == 2

\* TimeRangeSelector.calculateBoundaries: what the sliders range over
calculateBoundaries(doses) ==
    IF Len(doses) = 0
    THEN [min |-> Now - Day, max |-> Now + 365 * Day]
    ELSE [min |-> MinOf(TimesOf(doses)) - Day,
          max |-> MaxOf(TimesOf(doses)) + 365 * Day]

\* the positions a slider is dragged to: whole days from its left end
SliderPositions ==
    LET boundaries == calculateBoundaries(doseEntries)
    IN  {t \in {boundaries.min + k * Day : k \in 0..MaxSlide} : t <= boundaries.max}

\* the instants typed into a datetime-local input
RangeInputs == {Now - 2 * Day, Now + Day}

\* localTimeRange follows timeRange, so the other side is the one of timeRange
handleSliderChange(side, timestamp) ==
    /\ timeRange' = IF side = "start"
                    THEN [timeRange EXCEPT !.start = timestamp]
                    ELSE [timeRange EXCEPT !.end = timestamp]
    /\ UNCHANGED <<history, plottedDrugs>>

handleStartChange(newStart) ==
    /\ timeRange' = [timeRange EXCEPT !.start = newStart]
    /\ UNCHANGED <<history, plottedDrugs>>

handleEndChange(newEnd) ==
    /\ timeRange' = [timeRange EXCEPT !.end = newEnd]
    /\ UNCHANGED <<history, plottedDrugs>>

StartInputChange ==
    /\ pc = "app"
    /\ \E value \in RangeInputs : handleStartChange(value)
    /\ UNCHANGED <<callVars, nextId>>

EndInputChange ==
    /\ pc = "app"
    /\ \E value \in RangeInputs : handleEndChange(value)
    /\ UNCHANGED <<callVars, nextId>>

StartSliderChange ==
    /\ pc = "app"
    /\ \E value \in SliderPositions : handleSliderChange("start", value)
    /\ UNCHANGED <<callVars, nextId>>

EndSliderChange ==
    /\ pc = "app"
    /\ \E value \in SliderPositions : handleSliderChange("end", value)
    /\ UNCHANGED <<callVars, nextId>>

NextRange ==
    \/ StartInputChange
    \/ EndInputChange
    \/ StartSliderChange
    \/ EndSliderChange
    \/ DoseFormSubmit
    \/ DeleteDose

SpecRange == InitSaved /\ [][NextRange]_vars

\* C23: in every state reached through the time-range selector (start input,
\* end input, both sliders), handleAddDose and handleDeleteDose the window is
\* ordered: start <= end.
C23_WindowOrdered ==
    pc = "app" => timeRange.start <= timeRange.end

(***************************************************************************)
(* SpecDelete: the application opened on a saved state with up to three    *)
(* doses of one drug, and doses deleted from it.                           *)
(***************************************************************************)
MaxSavedDoses == 3

SavedDoseTimes ==
    UNION { { [i \in 1..n |-> DoseEntry(30 + i, 21, 200, f[i])] :
                f \in [1..n -> AppTimes] } : n \in 1..MaxSavedDoses }

\* useUndoRedo(initialState) with the parsed savedState, then the effect that
\* runs once on mount
InitDelete ==
    /\ pc = "app"
    /\ input = NoCall
    /\ output = FZero
    /\ path = <<>>
    /\ \E savedDoses \in SavedDoseTimes :
          /\ history = [past    |-> <<>>,
                        present |-> [drugs       |-> <<Drug(21, "a", 1)>>,
                                     doseEntries |-> savedDoses],
                        future  |-> <<>>]
          /\ timeRange = calculateDefaultTimeRange(savedDoses)
          /\ plottedDrugs = PlottedDrugsOf(<<Drug(21, "a", 1)>>, savedDoses)
    /\ nextId = MaxId

NextDelete ==
    \/ DeleteDose
    \/ DoseFormSubmit
    \/ Undo
    \/ Redo

SpecDelete == InitDelete /\ [][NextDelete]_vars

\* this step is handleDeleteDose of the i-th dose entry
DeletesDose(i) ==
    history' = updateState(history,
                  [drugs       |-> drugs,
                   doseEntries |-> SelectSeq(doseEntries,
                                      LAMBDA dose : dose.id # doseEntries[i].id)])

\* the i-th dose entry is the earliest or the latest of the dose entries
DefinesBounds(i) ==
    \/ doseEntries[i].administrationTime = MinOf(TimesOf(doseEntries))
    \/ doseEntries[i].administrationTime = MaxOf(TimesOf(doseEntries))

\* C24: handleDeleteDose changes the window only when the deleted dose was
\* defining the bounds (its instant was the earliest or the latest of the
\* doses before the deletion); deleting any other dose leaves the window as
\* it was.
C24_DeleteChangesWindowOnlyForBoundDose ==
    [][\A i \in 1..Len(doseEntries) :
          (DeletesDose(i) /\ ~DefinesBounds(i)) => timeRange' = timeRange]_vars

\* the dose entry at the end of the next state's list
AddedDose == history'.present.doseEntries[Len(history'.present.doseEntries)]

\* this step is handleAddDose of a dose entry with a fresh id
AddsDose ==
    /\ nextId' = nextId + 1
    /\ Len(history'.present.doseEntries) = Len(doseEntries) + 1
    /\ history' = updateState(history,
                     [drugs       |-> drugs,
                      doseEntries |-> Append(doseEntries, AddedDose)])

\* C25: handleAddDose leaves the window unchanged when the instant of the new
\* dose lies inside [start, end]; otherwise it only widens the window (new
\* start <= old start, new end >= old end) and afterwards the instant of the
\* new dose lies inside the window.
C25_AddDoseOnlyWidensWindow ==
    [][AddsDose =>
          LET doseTime == AddedDose.administrationTime
          IN  IF timeRange.start <= doseTime /\ doseTime <= timeRange.end
              THEN timeRange' = timeRange
              ELSE /\ timeRange'.start <= timeRange.start
                   /\ timeRange'.end >= timeRange.end
                   /\ timeRange'.start <= doseTime
                   /\ doseTime <= timeRange'.end]_vars

\* a dose two days back has widened the window of the fresh application, and
\* a dose inside the widened window has left it alone
C25_Witness ==
    /\ pc = "app"
    /\ Len(history.past) = 3
    /\ Len(doseEntries) = 2
    /\ doseEntries[1].administrationTime = Now - 2 * Day
    /\ doseEntries[2].administrationTime = Now - HourMs
    /\ timeRange = [start |-> Now - 3 * Day, end |-> Now]

(***************************************************************************)
(* SpecImport: DataControls on a saved state.  output is the document the   *)
(* last export has downloaded, path the state it was made from, input the  *)
(* file a FileReader is reading.                                           *)
(***************************************************************************)
\* Date.prototype.toISOString: the instant written out in its fields (the
\* days since the epoch, the hour of the day, the rest of the hour)
toISOString(time) ==
    [type |-> "string",
     day  |-> time \div Day,
     hour |-> (time % Day) \div HourMs,
     rest |-> time % HourMs]

\* a plausible slip: only the date part of the string is read
DateOfString_DateOnly(value) == value.day * Day

\* new Date(value) of a string in the ISO format
DateOfString(value) == value.day * Day + value.hour * HourMs + value.rest

\* JSON.stringify(state, replacer): a Date is written as its ISO string,
\* numbers and strings as they are
JSONstringify(state) ==
    [json        |-> TRUE,
     drugs       |-> state.drugs,
     doseEntries |-> [i \in 1..Len(state.doseEntries) |->
                        [state.doseEntries[i] EXCEPT
                            !.administrationTime = toISOString(@)]]]

\* a file that is not a JSON document
NotJSON == [json |-> FALSE]

\* the reviver of handleImport
reviver(key, value) ==
    IF key = "administrationTime" /\ value.type = "string"
    THEN DateOfString(value)
    ELSE value

\* JSON.parse(text, reviver) of a JSON document: the reviver is applied to
\* every field of every drug and dose entry
JSONparse(text) ==
    [drugs       |-> [k \in 1..Len(text.drugs) |->
                        [key \in DOMAIN text.drugs[k] |->
                            reviver(key, text.drugs[k][key])]],
     doseEntries |-> [i \in 1..Len(text.doseEntries) |->
                        [key \in DOMAIN text.doseEntries[i] |->
                            reviver(key, text.doseEntries[i][key])]]]

\* App.handleImport
handleImport(newState) ==
    /\ history' = updateState(history, newState)
    /\ Rendered(history')
    /\ UNCHANGED timeRange

\* DataControls.handleExport
Export ==
    /\ pc = "app"
    /\ output' = JSONstringify(history.present)
    /\ path' = <<history.present>>
    /\ UNCHANGED <<pc, input, appVars>>

\* DataControls.handleImport: a file is picked and handed to a FileReader
ImportFile ==
    /\ pc = "app"
    /\ Len(history.past) < MaxPast
    /\ \E file \in (IF Len(path) > 0 THEN {output} ELSE {}) \cup {NotJSON} :
          input' = [fn |-> "readAsText", file |-> file]
    /\ pc' = "reading"
    /\ UNCHANGED <<output, path, appVars>>

\* reader.onload: the text is parsed and imported; a text that does not
\* parse raises the alert and changes nothing
ReaderOnload ==
    /\ pc = "reading"
    /\ pc' = "app"
    /\ input' = NoCall
    /\ IF input.file.json
       THEN handleImport(JSONparse(input.file))
       ELSE UNCHANGED <<history, plottedDrugs, timeRange>>
    /\ UNCHANGED <<output, path, nextId>>

NextImport ==
    \/ DeleteDose
    \/ Export
    \/ ImportFile
    \/ ReaderOnload

SpecImport == InitDelete /\ [][NextImport]_vars

\* this step is the import of the document the last export has written
ImportsExported ==
    /\ pc = "reading"
    /\ pc' = "app"
    /\ Len(path) > 0
    /\ input.file = output

\* C26: export followed by import of the exported document restores the
\* application state the export was made from: the same drugs and the same
\* dose entries, each with its id, drugId, amount and its administration
\* instant as a Date, not a string; and the import is one state update that
\* an undo takes back.
C26_ExportImportRestoresState ==
    [][ImportsExported =>
          /\ history'.present = path[1]
          /\ \A i \in 1..Len(history'.present.doseEntries) :
                history'.present.doseEntries[i].administrationTime \in Int
          /\ history'.past = Append(history.past, history.present)
          /\ history'.future = <<>>
          /\ undo(history').present = history.present]_vars

\* a state with a dose was exported, the dose deleted, and the import has
\* brought it back
C26_Witness ==
    /\ pc = "app"
    /\ Len(path) > 0
    /\ history.present = path[1]
    /\ Len(doseEntries) = 1
    /\ Len(history.past) > 0
    /\ history.past[Len(history.past)].doseEntries = <<>>

\* the states of a history in their order: past, present, future
Timeline(h) == h.past \o <<h.present>> \o h.future

\* this step is an updateState
UpdatesState == history' = updateState(history, history'.present)

\* what undo and redo do to the history of the current state
UndoRedoInverse ==
    /\ canUndo(history) =>
          /\ redo(undo(history)) = history
          /\ Timeline(undo(history)) = Timeline(history)
    /\ canRedo(history) => Timeline(redo(history)) = Timeline(history)
    /\ ~canUndo(history) => undo(history) = history
    /\ ~canRedo(history) => redo(history) = history

\* C27: undo and redo are inverse and lose nothing: updateState(s) followed
\* by undo restores the present that held before; undo followed by redo (with
\* a non-empty past) restores past, present and future exactly; the sequence
\* past ++ [present] ++ future is unchanged by every undo and redo; undo with
\* an empty past and redo with an empty future leave the history unchanged.
C27_UndoRedoInverse ==
    /\ [](pc = "app" => UndoRedoInverse)
    /\ [][UpdatesState =>
             /\ undo(history').present = history.present
             /\ undo(history').past = history.past]_vars

\* three state updates and two undos: a history with a past and a future
C27_Witness ==
    /\ pc = "app"
    /\ Len(history.past) = 1
    /\ Len(history.future) = 2
    /\ Len(history.future[2].doseEntries) = 1
    /\ history.future[1].doseEntries = <<>>
    /\ Len(history.present.drugs) = 1

(***************************************************************************)
(* SpecHistory: every operation that changes the state, an import of a     *)
(* document of an earlier session among them, with undo and redo.          *)
(***************************************************************************)
\* a document exported in an earlier session
SavedFile ==
    JSONstringify([drugs       |-> <<Drug(21, "a", 1)>>,
                   doseEntries |-> <<DoseEntry(31, 21, 200, Now - HourMs)>>])

\* DataControls.handleImport with the file picked from the disk
ImportSavedFile ==
    /\ pc = "app"
    /\ Len(history.past) < MaxPast
    /\ \E file \in {SavedFile, NotJSON} :
          input' = [fn |-> "readAsText", file |-> file]
    /\ pc' = "reading"
    /\ UNCHANGED <<output, path, appVars>>

NextHistory ==
    \/ DrugFormSubmit
    \/ DoseFormSubmit
    \/ DeleteDose
    \/ ImportSavedFile
    \/ ReaderOnload
    \/ Undo
    \/ Redo

\* the empty application; the ids below MaxId - 1 were given out and dropped
\* in an earlier session
InitHistory ==
    /\ pc = "app"
    /\ input = NoCall
    /\ output = FZero
    /\ path = <<>>
    /\ history = NoHistory
    /\ timeRange = [start |-> Now - Day, end |-> Now]
    /\ plottedDrugs = <<>>
    /\ nextId = MaxId - 1

SpecHistory == InitHistory /\ [][NextHistory]_vars

\* this step is one of the state changes: add drug, add dose, delete dose,
\* import
ChangesState ==
    \/ DrugFormSubmit
    \/ DoseFormSubmit
    \/ DeleteDose
    \/ (ReaderOnload /\ input.file.json)

\* C28: every updateState(s) appends the previous present to the end of past,
\* makes s the present and empties future, so after any state change (add
\* drug, add dose, delete dose, import) redo is unavailable until an undo
\* happens, whatever undos preceded it; canUndo holds exactly when past is
\* non-empty and canRedo exactly when future is non-empty.
C28_UpdateClearsFuture ==
    /\ [][ChangesState =>
             /\ history'.past = Append(history.past, history.present)
             /\ history'.future = <<>>
             /\ ~canRedo(history')]_vars
    /\ [][(canRedo(history') /\ ~canRedo(history)) =>
             (canUndo(history) /\ history' = undo(history))]_vars
    /\ [](pc = "app" =>
             /\ canUndo(history) <=> history.past # <<>>
             /\ canRedo(history) <=> history.future # <<>>
             /\ ENABLED Undo <=> history.past # <<>>
             /\ ENABLED Redo <=> history.future # <<>>)

\* a drug was added and the addition undone, then another drug added:
\* nothing is left of the first drug and there is nothing to redo
C28_Witness ==
    /\ pc = "app"
    /\ nextId = MaxId + 1
    /\ Len(history.past) = 1
    /\ history.future = <<>>
    /\ Len(drugs) = 1
    /\ drugs[1].id = MaxId
    /\ \A n \in 1..Len(Timeline(history)) :
          \A k \in 1..Len(Timeline(history)[n].drugs) :
              Timeline(history)[n].drugs[k].id # MaxId - 1

\* C29: for every window with start < end, a half-life > 0 and a non-empty
\* dose list the output of the adaptive sampler contains the window start and
\* the window end, also when the computed number of points (window duration /
\* half-life * 10) is not a whole number.
C29_WindowStartAndEndSampled ==
    (SamplerDone /\ timeRange.start < timeRange.end
        /\ input.drug.halfLife > 0 /\ Len(input.doses) > 0)
    => /\ \E k \in 1..Len(output) : output[k].x = timeRange.start
       /\ \E k \in 1..Len(output) : output[k].x = timeRange.end

(***************************************************************************)
(* SpecFixedStep: the fixed-step calculateDecayPoints, one loop iteration  *)
(* per step.  output holds its locals: points, time and step.              *)
(***************************************************************************)
MaxLoop == 102

\* the inner loop over the doses at one instant, from concentration
RECURSIVE FixedStepConcentration(_, _, _, _, _)
FixedStepConcentration(doses, drug, time, i, concentration) ==
    IF i > Len(doses) THEN concentration
    ELSE LET timeSinceAdmin == RSub(time, R(doses[i].administrationTime))
         IN  IF RLe(R(0), timeSinceAdmin)
             THEN LET halfLives == RDiv(timeSinceAdmin, R(drug.halfLife * HourMs))
                  IN  FixedStepConcentration(doses, drug, time, i + 1,
                          FAdd(concentration,
                               FMul(F(doses[i].initialDose), Pow05(halfLives))))
             ELSE FixedStepConcentration(doses, drug, time, i + 1, concentration)

FixedStepDoseLists(window) ==
    {<<>>} \cup {<<DoseEntry(1, 1, 200, t)>> : t \in TimesAround(window)}

InitFixedStep ==
    /\ pc = "ready"
    /\ timeRange \in Windows
    /\ \E halfLife \in {1, MaxHalfLife} :
          \E doses \in FixedStepDoseLists(timeRange) :
              input = [fn    |-> "calculateDecayPointsFixedStep",
                       drug  |-> Drug(1, "a", halfLife),
                       doses |-> doses]
    /\ output = <<>>
    /\ path = <<>>
    /\ history = NoHistory
    /\ plottedDrugs = <<>>
    /\ nextId = 1

\* the call without doses: return []
FixedStepNoDoses ==
    /\ pc = "ready"
    /\ Len(input.doses) = 0
    /\ output' = [points |-> <<>>, time |-> R(timeRange.start), step |-> R(0)]
    /\ pc' = "done"
    /\ UNCHANGED <<input, path, appVars>>

\* the statements before the loop, with let time = startTime
FixedStepEnter ==
    /\ pc = "ready"
    /\ Len(input.doses) # 0
    /\ output' = [points |-> <<>>,
                  time   |-> R(timeRange.start),
                  step   |-> RDiv(R(timeRange.end - timeRange.start), R(100))]
    /\ pc' = "loop"
    /\ UNCHANGED <<input, path, appVars>>

\* one iteration: time <= endTime, a point is pushed, time += step
FixedStepIterate ==
    /\ pc = "loop"
    /\ Len(output.points) < MaxLoop
    /\ RLe(output.time, R(timeRange.end))
    /\ output' = [output EXCEPT
                     !.points = Append(@,
                         [x |-> DateOf(output.time),
                          y |-> FixedStepConcentration(input.doses, input.drug,
                                                       output.time, 1, FZero)]),
                     !.time   = RAdd(@, output.step)]
    /\ UNCHANGED <<pc, input, path, appVars>>

\* the loop condition fails: return points
FixedStepReturn ==
    /\ pc = "loop"
    /\ ~RLe(output.time, R(timeRange.end))
    /\ pc' = "done"
    /\ UNCHANGED <<input, output, path, appVars>>

NextFixedStep ==
    \/ FixedStepNoDoses
    \/ FixedStepEnter
    \/ FixedStepIterate
    \/ FixedStepReturn

SpecFixedStep == InitFixedStep /\ [][NextFixedStep]_vars

\* C30: the fixed-step calculateDecayPoints (100 equal steps across the
\* window) terminates for every window with start <= end and a non-empty dose
\* list, a zero-duration window included, with a finite series of at most 101
\* points: the loop never holds more than 101 points, and once it holds 101
\* its condition fails.
C30_FixedStepAtMost101Points ==
    (pc \in {"loop", "done"} /\ timeRange.start <= timeRange.end
        /\ Len(input.doses) > 0)
    => /\ Len(output.points) <= 101
       /\ Len(output.points) = 101 => ~RLe(output.time, R(timeRange.end))

====
